---- MODULE Spec2Model ----
(***************************************************************************)
(* Model of tfserver/example_model/inception_v3_http_client.py:            *)
(* the _ResultCounter shared counters, the gRPC completion callback, the   *)
(* DataSet cursor and the grpc_inception_v3_client dispatch loop.          *)
(***************************************************************************)
EXTENDS Integers, Sequences, FiniteSets, TLC

\* ---- bounds of the model ----
MaxTests == 3
MaxConcurrency == 2
NumLabels == 2
NumContexts == 3
MaxExtra == 1
MaxCalls == 7

Labels == 0..(NumLabels - 1)

VARIABLES
    num_tests,          \* _ResultCounter._num_tests
    concurrency,        \* _ResultCounter._concurrency
    error,              \* _ResultCounter._error
    done,               \* _ResultCounter._done
    active,             \* _ResultCounter._active
    num_examples,       \* DataSet._num_examples
    labels,             \* DataSet._labels, indexed 0..num_examples-1
    index_in_epoch,     \* DataSet._index_in_epoch
    epochs_completed,   \* DataSet._epochs_completed
    pc,                 \* position of the control thread in grpc_inception_v3_client
    sent,               \* number of futures dispatched so far
    label,              \* <<label[0]>> of the batch pulled in the current iteration, <<>> before
    cb,                 \* per request: position of its future / _callback
    cb_label,           \* per request: <<label>> captured by _create_rpc_callback, <<>> before
    future,             \* per request: what result_future resolved to
    deltaTime,          \* <<completions recorded when line 206 read the clock>>, <<>> before
    rate,               \* value returned by get_error_rate: <<numerator, denominator>>
    doneOrder,          \* history: request ids in the order inc_done ran
    ctx,                \* per calling context of _ResultCounter: its position (direct API use)
    batch,              \* <<start, end>> of the slice DataSet.next_batch returned, <<>> if none
    calls               \* number of DataSet.next_batch calls made (direct API use)

vars == <<num_tests, concurrency, error, done, active, num_examples, labels,
          index_in_epoch, epochs_completed, pc, sent, label, cb, cb_label,
          future, deltaTime, rate, doneOrder, ctx, batch, calls>>

counterVars == <<error, done, active>>
configVars == <<num_tests, concurrency, num_examples, labels>>
dataVars == <<index_in_epoch, epochs_completed>>
\* state used only when _ResultCounter / DataSet are called directly
harnessVars == <<ctx, batch, calls>>

Pending == [exc |-> "PENDING", scores |-> <<>>]

\* one-hot score vectors of length NumLabels, and the empty float_val of a
\* response whose 'scores' output is missing
OneHot(k) == [j \in 1..NumLabels |-> IF j = k + 1 THEN 1 ELSE 0]
ScoreVectors == {<<>>} \cup {OneHot(k) : k \in Labels}

\* what a future can resolve to: an RPC error (exception() is not None) or a
\* PredictResponse
Responses ==
    {[exc |-> e, scores |-> <<>>] : e \in {"UNAVAILABLE", "DEADLINE_EXCEEDED"}}
    \cup {[exc |-> "OK", scores |-> s] : s \in ScoreVectors}

\* np.argmax: 0-based index of the first maximal element
ArgMax(s) ==
    (CHOOSE k \in 1..Len(s) :
        /\ \A j \in 1..Len(s) : s[j] <= s[k]
        /\ \A j \in 1..(k - 1) : s[j] < s[k]) - 1

Requests == 1..num_tests

Init ==
    /\ num_tests \in 1..MaxTests
    /\ concurrency \in 1..MaxConcurrency
    /\ num_examples \in 1..num_tests
    /\ labels \in [0..(num_examples - 1) -> Labels]
    /\ error = 0
    /\ done = 0
    /\ active = 0
    /\ index_in_epoch = 0
    /\ epochs_completed = 0
    /\ pc = "next_batch"
    /\ sent = 0
    /\ label = <<>>
    /\ cb = [i \in Requests |-> "none"]
    /\ cb_label = [i \in Requests |-> <<>>]
    /\ future = [i \in Requests |-> Pending]
    /\ deltaTime = <<>>
    /\ rate = <<>>
    /\ doneOrder = <<>>
    /\ ctx = <<>>
    /\ batch = <<>>
    /\ calls = 0

\* ---- threading.Condition: the control thread is the only thread that waits ----
Waiting == pc \in {"throttle_wait", "get_error_rate_wait"}

\* self._condition.notify(): wake the waiter, which re-tests its while condition
Notify(p) ==
    IF p = "throttle_wait" THEN "throttle"
    ELSE IF p = "get_error_rate_wait" THEN "get_error_rate"
    ELSE p

\* variant of NextStart: the wrap test uses >= instead of >
NextStart_ge == IF index_in_epoch + 1 >= num_examples THEN 0 ELSE index_in_epoch

\* ---- DataSet.next_batch(1): the start index served ----
NextStart == IF index_in_epoch + 1 > num_examples THEN 0 ELSE index_in_epoch
NextIndex == IF index_in_epoch + 1 > num_examples THEN 1 ELSE index_in_epoch + 1
NextEpochs ==
    IF index_in_epoch + 1 > num_examples THEN epochs_completed + 1
    ELSE epochs_completed

\* for _ in range(num_tests): next_batch(1) and the request build, or loop exit
NextBatch ==
    /\ pc = "next_batch"
    /\ IF sent < num_tests
       THEN /\ label' = <<labels[NextStart]>>
            /\ index_in_epoch' = NextIndex
            /\ epochs_completed' = NextEpochs
            /\ pc' = "throttle"
       ELSE /\ pc' = "now"
            /\ UNCHANGED <<label, index_in_epoch, epochs_completed>>
    /\ UNCHANGED <<harnessVars, configVars, counterVars, sent, cb, cb_label, future,
                   deltaTime, rate, doneOrder>>

\* variant of ThrottleBlocked: the gate tests > instead of ==
ThrottleBlocked_gt == active > concurrency

\* _ResultCounter.throttle: while self._active == self._concurrency: wait()
ThrottleBlocked == active = concurrency

throttle ==
    /\ pc = "throttle"
    /\ IF ThrottleBlocked
       THEN /\ pc' = "throttle_wait"
            /\ UNCHANGED active
       ELSE /\ active' = active + 1
            /\ pc' = "dispatch"
    /\ UNCHANGED <<harnessVars, configVars, dataVars, error, done, sent, label, cb,
                   cb_label, future, deltaTime, rate, doneOrder>>

\* stub.Predict.future(request, 5.0); add_done_callback(_create_rpc_callback(...))
Dispatch ==
    /\ pc = "dispatch"
    /\ sent' = sent + 1
    /\ cb' = [cb EXCEPT ![sent + 1] = "inflight"]
    /\ cb_label' = [cb_label EXCEPT ![sent + 1] = label]
    /\ pc' = "next_batch"
    /\ UNCHANGED <<harnessVars, configVars, dataVars, counterVars, label, future,
                   deltaTime, rate, doneOrder>>

\* deltaTime = (datetime.now() - start).total_seconds()
Now ==
    /\ pc = "now"
    /\ deltaTime' = <<done>>
    /\ pc' = "get_error_rate"
    /\ UNCHANGED <<harnessVars, configVars, dataVars, counterVars, sent, label, cb,
                   cb_label, future, rate, doneOrder>>

\* variant of RateBlocked: the wait ends at the first completion
RateBlocked_first == done = 0

\* _ResultCounter.get_error_rate: while self._done != self._num_tests: wait()
RateBlocked == done # num_tests

get_error_rate ==
    /\ pc = "get_error_rate"
    /\ IF RateBlocked
       THEN /\ pc' = "get_error_rate_wait"
            /\ UNCHANGED rate
       ELSE /\ rate' = <<error, num_tests>>
            /\ pc' = "returned"
    /\ UNCHANGED <<harnessVars, configVars, dataVars, counterVars, sent, label, cb,
                   cb_label, future, deltaTime, doneOrder>>

\* ---- _callback(result_future) ----
\* variant of CallbackBranch: a label mismatch is not recorded as an error
CallbackBranch_nomismatch(r, l) ==
    IF r.exc # "OK" THEN "inc_error"
    ELSE IF Len(r.scores) = 0 THEN "raised"
    ELSE "inc_done"

\* variant of CallbackBranch: the label comparison is inverted
CallbackBranch_inverted(r, l) ==
    IF r.exc # "OK" THEN "inc_error"
    ELSE IF Len(r.scores) = 0 THEN "raised"
    ELSE IF l = ArgMax(r.scores) THEN "inc_error"
    ELSE "inc_done"

\* variant of CallbackBranch: an RPC error is printed but not counted
CallbackBranch_noexc(r, l) ==
    IF r.exc # "OK" THEN "inc_done"
    ELSE IF Len(r.scores) = 0 THEN "raised"
    ELSE IF l # ArgMax(r.scores) THEN "inc_error"
    ELSE "inc_done"

\* the part of _callback before its first counter call: where it goes next
CallbackBranch(r, l) ==
    IF r.exc # "OK" THEN "inc_error"
    ELSE IF Len(r.scores) = 0 THEN "raised"
    ELSE IF l # ArgMax(r.scores) THEN "inc_error"
    ELSE "inc_done"

\* variant of Callback: the done-callback is registered twice and runs again
Callback_twice(i) ==
    /\ cb[i] \in {"inflight", "finished"}
    /\ \E r \in Responses :
        /\ future' = [future EXCEPT ![i] = r]
        /\ cb' = [cb EXCEPT ![i] = CallbackBranch(r, cb_label[i][1])]
    /\ UNCHANGED <<harnessVars, configVars, dataVars, counterVars, pc, sent, label,
                   cb_label, deltaTime, rate, doneOrder>>

\* the future of request i resolves to r and its done-callback starts
Callback(i) ==
    /\ cb[i] = "inflight"
    /\ \E r \in Responses :
        /\ future' = [future EXCEPT ![i] = r]
        /\ cb' = [cb EXCEPT ![i] = CallbackBranch(r, cb_label[i][1])]
    /\ UNCHANGED <<harnessVars, configVars, dataVars, counterVars, pc, sent, label,
                   cb_label, deltaTime, rate, doneOrder>>

\* variant of inc_error: the error path also counts the completion itself
inc_error_counts_done(i) ==
    /\ cb[i] = "inc_error"
    /\ error' = error + 1
    /\ done' = done + 1
    /\ cb' = [cb EXCEPT ![i] = "inc_done"]
    /\ UNCHANGED <<harnessVars, configVars, dataVars, active, pc, sent, label,
                   cb_label, future, deltaTime, rate, doneOrder>>

\* variant of inc_error: the callback records the completion first and the
\* error after it
inc_error_after_done(i) ==
    /\ cb[i] = "inc_error"
    /\ IF \A k \in 1..Len(doneOrder) : doneOrder[k] # i
       THEN /\ done' = done + 1
            /\ pc' = Notify(pc)
            /\ doneOrder' = Append(doneOrder, i)
            /\ UNCHANGED <<error, cb>>
       ELSE /\ error' = error + 1
            /\ cb' = [cb EXCEPT ![i] = "dec_active"]
            /\ UNCHANGED <<done, pc, doneOrder>>
    /\ UNCHANGED <<harnessVars, configVars, dataVars, active, sent, label,
                   cb_label, future, deltaTime, rate>>

\* _ResultCounter.inc_error
inc_error(i) ==
    /\ cb[i] = "inc_error"
    /\ error' = error + 1
    /\ cb' = [cb EXCEPT ![i] = "inc_done"]
    /\ UNCHANGED <<harnessVars, configVars, dataVars, done, active, pc, sent, label,
                   cb_label, future, deltaTime, rate, doneOrder>>

\* variant of inc_done: notifies without counting the completion
inc_done_nocount(i) ==
    /\ cb[i] = "inc_done"
    /\ pc' = Notify(pc)
    /\ cb' = [cb EXCEPT ![i] = "dec_active"]
    /\ doneOrder' = Append(doneOrder, i)
    /\ UNCHANGED <<harnessVars, configVars, dataVars, error, done, active, sent, label,
                   cb_label, future, deltaTime, rate>>

\* _ResultCounter.inc_done
inc_done(i) ==
    /\ cb[i] = "inc_done"
    /\ done' = done + 1
    /\ pc' = Notify(pc)
    /\ cb' = [cb EXCEPT ![i] = "dec_active"]
    /\ doneOrder' = Append(doneOrder, i)
    /\ UNCHANGED <<harnessVars, configVars, dataVars, error, active, sent, label,
                   cb_label, future, deltaTime, rate>>

\* _ResultCounter.dec_active
dec_active(i) ==
    /\ cb[i] = "dec_active"
    /\ active' = active - 1
    /\ pc' = Notify(pc)
    /\ cb' = [cb EXCEPT ![i] = "finished"]
    /\ UNCHANGED <<harnessVars, configVars, dataVars, error, done, sent, label,
                   cb_label, future, deltaTime, rate, doneOrder>>

Driver == NextBatch \/ throttle \/ Dispatch \/ Now \/ get_error_rate

CallbackStep(i) == Callback(i) \/ inc_error(i) \/ inc_done(i) \/ dec_active(i)

Next ==
    \/ NextBatch
    \/ throttle
    \/ Dispatch
    \/ Now
    \/ get_error_rate
    \/ \E i \in Requests : Callback(i)
    \/ \E i \in Requests : inc_error(i)
    \/ \E i \in Requests : inc_done(i)
    \/ \E i \in Requests : dec_active(i)

Spec == Init /\ [][Next]_vars

\* the control thread keeps running and every future resolves and runs its
\* callback to the end
FairSpec ==
    /\ Spec
    /\ WF_vars(Driver)
    /\ \A i \in 1..MaxTests : WF_vars(i \in Requests /\ CallbackStep(i))

\* ---- http_inception_v3_client / http_inception_v3_kfserving_client ----
\* what requests.post can do: return a Response (whatever its body) or raise
HttpResponses ==
    {[exc |-> "ConnectionError", scores |-> <<>>]}
    \cup {[exc |-> "OK", scores |-> s] : s \in ScoreVectors}

\* the synchronous clients build no _ResultCounter: its counters stay untouched
HttpInit ==
    /\ num_tests \in 1..MaxTests
    /\ concurrency \in 1..MaxConcurrency
    /\ num_examples \in 1..num_tests
    /\ labels \in [0..(num_examples - 1) -> Labels]
    /\ error = 0
    /\ done = 0
    /\ active = 0
    /\ index_in_epoch = 0
    /\ epochs_completed = 0
    /\ pc = "http_next_batch"
    /\ sent = 0
    /\ label = <<>>
    /\ cb = [i \in Requests |-> "none"]
    /\ cb_label = [i \in Requests |-> <<>>]
    /\ future = [i \in Requests |-> Pending]
    /\ deltaTime = <<>>
    /\ rate = <<>>
    /\ doneOrder = <<>>
    /\ ctx = <<>>
    /\ batch = <<>>
    /\ calls = 0

\* for _ in range(num_tests): next_batch(1) and the request dict, or loop exit
HttpNextBatch ==
    /\ pc = "http_next_batch"
    /\ IF sent < num_tests
       THEN /\ label' = <<labels[NextStart]>>
            /\ index_in_epoch' = NextIndex
            /\ epochs_completed' = NextEpochs
            /\ pc' = "http_post"
       ELSE /\ pc' = "http_now"
            /\ UNCHANGED <<label, index_in_epoch, epochs_completed>>
    /\ UNCHANGED <<harnessVars, configVars, counterVars, sent, cb, cb_label,
                   future, deltaTime, rate, doneOrder>>

\* response = requests.post(url, data=json.dumps(request)): the response is
\* kept and never read; an exception leaves the loop and the function
HttpPost ==
    /\ pc = "http_post"
    /\ \E r \in HttpResponses :
        /\ future' = [future EXCEPT ![sent + 1] = r]
        /\ pc' = IF r.exc = "OK" THEN "http_next_batch" ELSE "http_raised"
    /\ sent' = sent + 1
    /\ UNCHANGED <<harnessVars, configVars, dataVars, counterVars, label, cb,
                   cb_label, deltaTime, rate, doneOrder>>

\* deltaTime = ...; print("Time:", deltaTime); the function returns None
HttpNow ==
    /\ pc = "http_now"
    /\ deltaTime' = <<done>>
    /\ pc' = "http_returned"
    /\ UNCHANGED <<harnessVars, configVars, dataVars, counterVars, sent, label,
                   cb, cb_label, future, rate, doneOrder>>

HttpNext == HttpNextBatch \/ HttpPost \/ HttpNow

HttpSpec == HttpInit /\ [][HttpNext]_vars

\* ---- _ResultCounter called directly from NumContexts concurrent contexts ----
Contexts == 1..NumContexts

ApiInit ==
    /\ num_tests \in 1..MaxTests
    /\ concurrency \in 1..MaxConcurrency
    /\ num_examples \in 1..num_tests
    /\ labels \in [0..(num_examples - 1) -> Labels]
    /\ error = 0
    /\ done = 0
    /\ active = 0
    /\ index_in_epoch = 0
    /\ epochs_completed = 0
    /\ pc = "api"
    /\ sent = 0
    /\ label = <<>>
    /\ cb = [i \in Requests |-> "none"]
    /\ cb_label = [i \in Requests |-> <<>>]
    /\ future = [i \in Requests |-> Pending]
    /\ deltaTime = <<>>
    /\ rate = <<>>
    /\ doneOrder = <<>>
    /\ ctx = [c \in Contexts |-> "idle"]
    /\ batch = <<>>
    /\ calls = 0

apiRest == <<configVars, dataVars, pc, sent, label, cb, cb_label, future,
             deltaTime, doneOrder, batch, calls>>

Waiters == {c \in Contexts : ctx[c] \in {"throttle_wait", "get_error_rate_wait"}}

\* self._condition.notify(): wakes one of the waiting contexts, if there is one
NotifyOne ==
    IF Waiters = {}
    THEN UNCHANGED ctx
    ELSE \E w \in Waiters : ctx' = [ctx EXCEPT ![w] = Notify(ctx[w])]

\* _ResultCounter.inc_error called by context c
api_inc_error(c) ==
    /\ ctx[c] = "idle"
    /\ error < num_tests
    /\ error' = error + 1
    /\ UNCHANGED <<apiRest, done, active, rate, ctx>>

\* _ResultCounter.inc_done called by context c, also beyond num_tests calls
api_inc_done(c) ==
    /\ ctx[c] = "idle"
    /\ done < num_tests + MaxExtra
    /\ done' = done + 1
    /\ NotifyOne
    /\ UNCHANGED <<apiRest, error, active, rate>>

\* _ResultCounter.dec_active called by context c for a slot taken before
api_dec_active(c) ==
    /\ ctx[c] = "idle"
    /\ active > 0
    /\ active' = active - 1
    /\ NotifyOne
    /\ UNCHANGED <<apiRest, error, done, rate>>

\* _ResultCounter.throttle called by context c, or re-tested after a wake-up
api_throttle(c) ==
    /\ ctx[c] \in {"idle", "throttle"}
    /\ IF ThrottleBlocked
       THEN /\ ctx' = [ctx EXCEPT ![c] = "throttle_wait"]
            /\ UNCHANGED active
       ELSE /\ active' = active + 1
            /\ ctx' = [ctx EXCEPT ![c] = "idle"]
    /\ UNCHANGED <<apiRest, error, done, rate>>

\* _ResultCounter.get_error_rate called by context c, or re-tested after a wake-up
api_get_error_rate(c) ==
    /\ ctx[c] \in {"idle", "get_error_rate"}
    /\ IF RateBlocked
       THEN /\ ctx' = [ctx EXCEPT ![c] = "get_error_rate_wait"]
            /\ UNCHANGED rate
       ELSE /\ rate' = <<error, num_tests>>
            /\ ctx' = [ctx EXCEPT ![c] = "idle"]
    /\ UNCHANGED <<apiRest, error, done, active>>

ApiNext ==
    \/ \E c \in Contexts : api_inc_error(c)
    \/ \E c \in Contexts : api_inc_done(c)
    \/ \E c \in Contexts : api_dec_active(c)
    \/ \E c \in Contexts : api_throttle(c)
    \/ \E c \in Contexts : api_get_error_rate(c)

ApiSpec == ApiInit /\ [][ApiNext]_vars

\* ---- DataSet.next_batch(1) called directly, up to MaxCalls times ----
\* a data set of 0..MaxTests examples (0 when the label file is empty)
DataInit ==
    /\ num_tests \in 1..MaxTests
    /\ concurrency = 1
    /\ num_examples \in 0..num_tests
    /\ labels \in [0..(num_examples - 1) -> Labels]
    /\ error = 0
    /\ done = 0
    /\ active = 0
    /\ index_in_epoch = 0
    /\ epochs_completed = 0
    /\ pc = "data"
    /\ sent = 0
    /\ label = <<>>
    /\ cb = [i \in Requests |-> "none"]
    /\ cb_label = [i \in Requests |-> <<>>]
    /\ future = [i \in Requests |-> Pending]
    /\ deltaTime = <<>>
    /\ rate = <<>>
    /\ doneOrder = <<>>
    /\ ctx = <<>>
    /\ batch = <<>>
    /\ calls = 0

\* DataSet.next_batch(1): returns the slice [start:end], or raises when
\* assert batch_size <= self._num_examples fails after a wrap
next_batch ==
    /\ calls < MaxCalls
    /\ calls' = calls + 1
    /\ index_in_epoch' = NextIndex
    /\ epochs_completed' = NextEpochs
    /\ IF index_in_epoch + 1 > num_examples /\ ~(1 <= num_examples)
       THEN /\ batch' = <<>>
            /\ UNCHANGED label
       ELSE /\ batch' = <<NextStart, NextIndex>>
            /\ label' = <<labels[NextStart]>>
    /\ UNCHANGED <<configVars, counterVars, pc, sent, cb, cb_label, future,
                   deltaTime, rate, doneOrder, ctx>>

DataNext == next_batch

DataSpec == DataInit /\ [][DataNext]_vars

\* ---- outcomes of a request, as the driver's contract classifies them ----
Resolved(i) == future[i] # Pending
TransportFailed(i) == future[i].exc \in {"UNAVAILABLE", "DEADLINE_EXCEEDED"}
Malformed(i) == future[i].exc = "OK" /\ Len(future[i].scores) = 0
WrongLabel(i) ==
    /\ future[i].exc = "OK"
    /\ Len(future[i].scores) > 0
    /\ ArgMax(future[i].scores) # cb_label[i][1]
Correct(i) ==
    /\ future[i].exc = "OK"
    /\ Len(future[i].scores) > 0
    /\ ArgMax(future[i].scores) = cb_label[i][1]
\* F: the requests whose outcome is a transport failure or a wrong label
FailureSet == {i \in Requests : TransportFailed(i) \/ WrongLabel(i)}
\* callbacks that have run to their end, normally or by raising
Ended == {i \in Requests : cb[i] \in {"finished", "raised"}}
\* callbacks that have called inc_error and not yet inc_done
Midway == {i \in FailureSet : cb[i] = "inc_done"}

\* C1: in every reachable state of the asynchronous driver the in-flight
\* counter satisfies 0 <= in_flight <= concurrency_limit.
C1_InFlightBounded == 0 <= active /\ active <= concurrency

C1_Witness ==
    /\ pc = "throttle_wait"
    /\ active = concurrency
    /\ sent < num_tests

\* C2: get_error_rate returns only in a state where exactly num_tests
\* completions have been recorded, whatever the order of completion.
C2_ReturnsOnlyWhenAllDone ==
    pc = "returned" => (done = num_tests /\ Len(doneOrder) = num_tests)

\* get_error_rate has returned after the requests completed in reverse
\* dispatch order
C2_Witness ==
    /\ pc = "returned"
    /\ num_tests >= 2
    /\ \A k \in 1..Len(doneOrder) : doneOrder[k] = num_tests + 1 - k

\* C3: once all num_tests requests have been dispatched (and every callback
\* eventually runs), the driver's get_error_rate eventually returns.
C3_WaitForAllReturns == (sent = num_tests) ~> (pc = "returned")

C5_ErrorRate ==
    pc = "returned" =>
        /\ rate = <<Cardinality(FailureSet), num_tests>>
        /\ 0 <= rate[1] /\ rate[1] <= rate[2]

\* returned with a transport failure, a wrong label and a correct prediction
C5_Witness ==
    /\ pc = "returned"
    /\ \E i \in Requests : TransportFailed(i)
    /\ \E i \in Requests : WrongLabel(i)
    /\ \E i \in Requests : Correct(i)
    /\ rate[1] = 2

\* C6: when every response is a success predicting the expected label, no
\* error is ever recorded and the returned rate is 0.
C6_AllCorrectNoError ==
    (\A i \in Requests : Resolved(i) => Correct(i)) =>
        /\ error = 0
        /\ pc = "returned" => rate = <<0, num_tests>>

C6_Witness ==
    /\ pc = "returned"
    /\ num_tests >= 2
    /\ \A i \in Requests : Correct(i)

\* C7: when every request fails in transport (a timeout included), the run
\* ends with errors = num_tests, a rate of 1.
C7_AllFailAllErrors ==
    (pc = "returned" /\ \A i \in Requests : TransportFailed(i)) =>
        (error = num_tests /\ rate = <<num_tests, num_tests>>)

C7_Witness ==
    /\ pc = "returned"
    /\ \A i \in Requests : TransportFailed(i)
    /\ \E i \in Requests : future[i].exc = "DEADLINE_EXCEEDED"
    /\ \E i \in Requests : future[i].exc = "UNAVAILABLE"

\* C8 (as stated): errors <= completed in every reachable state, the states
\* between the counter operations of a callback included.
C8_ErrorsLeCompleted == error <= done

\* C8 (amended): errors <= completed + the number of callbacks that have
\* called inc_error and not yet inc_done; so errors <= completed whenever no
\* callback is between the two calls, and when get_error_rate returns.
C8_ErrorsLeCompletedPlusMidway ==
    /\ error <= done + Cardinality(Midway)
    /\ pc = "returned" => error <= done

\* a callback has recorded its error and not yet its completion
C8_Witness ==
    /\ Midway # {}
    /\ error = done + Cardinality(Midway)

\* C9: in every reachable state 0 <= completed <= total.
C9_CompletedBounded == 0 <= done /\ done <= num_tests

C9_Witness ==
    /\ done = num_tests
    /\ num_tests >= 2
    /\ pc # "returned"

\* C10: the end timestamp of the elapsed time is taken only after
\* get_error_rate has returned, so it covers all num_tests completions.
C10_StampAfterWait ==
    deltaTime # <<>> => (pc = "returned" /\ deltaTime = <<num_tests>>)

\* C11: a transport failure never propagates as a thrown failure into the
\* driver's main loop, in the synchronous mode as in the asynchronous one: a
\* failing send does not abort the loop.
C11_NoThrowIntoLoop == pc # "http_raised"

\* C12: in synchronous mode the driver records the outcome of each send
\* (record_error on failure, record_completion, release) before the next
\* example, so after the loop completed = num_tests and an error rate is
\* available.
C12_SyncRecordsOutcomes ==
    /\ pc = "http_next_batch" => done = sent
    /\ pc = "http_returned" => (done = num_tests /\ rate # <<>>)

\* C13: a record_completion made when completed = total is guarded: completed
\* never exceeds total, and no context then waits in get_error_rate on a
\* count that can no longer equal total.
C13_CompletionGuarded ==
    /\ done <= num_tests
    /\ \A c \in Contexts : ctx[c] = "get_error_rate_wait" => done <= num_tests

\* C14: no lost wake-up with several contexts blocked on the condition: no
\* context stays blocked in get_error_rate once completed = total, and when a
\* slot is free while contexts are blocked in throttle, one of them has been
\* woken.
C14_NoLostWakeup ==
    /\ \A c \in Contexts : ctx[c] = "get_error_rate_wait" => done # num_tests
    /\ (active < concurrency /\ \E c \in Contexts : ctx[c] = "throttle_wait")
           => \E c \in Contexts : ctx[c] = "throttle"

\* throttle() calls of the control thread that have returned
AdmitsReturned == sent + (IF pc = "dispatch" THEN 1 ELSE 0)
\* dec_active() calls that callbacks have made
ReleasesPerformed == Cardinality({i \in Requests : cb[i] = "finished"})

\* C15: a request's completion is recorded only after the throttle call made
\* for it has returned; the completions recorded never exceed the admits
\* returned.
C15_CompletionAfterAdmit ==
    /\ done <= AdmitsReturned
    /\ \A k \in 1..Len(doneOrder) : doneOrder[k] <= sent

\* every admitted request has completed while the loop still has requests to send
C15_Witness ==
    /\ done >= 1
    /\ done = AdmitsReturned
    /\ sent < num_tests

\* C16: no slot leak: release is called exactly once per admit, so in_flight
\* = admits returned - releases performed, stays in [0, concurrency_limit],
\* and is 0 once the callback of every dispatched request has run.
C16_NoSlotLeak ==
    /\ active = AdmitsReturned - ReleasesPerformed
    /\ 0 <= active /\ active <= concurrency
    /\ (pc # "dispatch" /\ \A i \in 1..sent : i \in Ended) => active = 0

\* C18: the control thread is never blocked forever in throttle: every one
\* of the num_tests requests is eventually dispatched.
C18_AllDispatched == <>(sent = num_tests)

\* C19: releases performed <= completions recorded <= admits returned, hence
\* in_flight >= admits - completed; and when get_error_rate returns no
\* inc_error of the run is still to come, so the returned error count is final.
C19_OrderingAndFinalErrors ==
    /\ ReleasesPerformed <= done
    /\ done <= AdmitsReturned
    /\ active >= AdmitsReturned - done
    /\ pc = "returned" =>
          /\ rate[1] = error
          /\ \A i \in Requests : cb[i] \in {"dec_active", "finished"}

\* returned with an error counted while a callback has yet to release its slot
C19_Witness ==
    /\ pc = "returned"
    /\ rate[1] >= 1
    /\ ReleasesPerformed < done

\* C17: on a data set of N >= 1 examples every next_batch(1) call returns
\* exactly one example and never fails; the k-th call (from 0) returns
\* example k mod N, the cursor stays in [1, N] after each call, and the epoch
\* counter has grown by one for each wrap of the cursor.
C17_NextBatchWraps ==
    (num_examples >= 1 /\ calls >= 1) =>
        /\ batch = <<(calls - 1) % num_examples, ((calls - 1) % num_examples) + 1>>
        /\ label = <<labels[(calls - 1) % num_examples]>>
        /\ index_in_epoch \in 1..num_examples
        /\ epochs_completed = (calls - 1) \div num_examples

\* more calls than examples: the cursor has wrapped at least twice
C17_Witness ==
    /\ num_examples >= 2
    /\ calls > 2 * num_examples
    /\ epochs_completed = 2
    /\ batch = <<0, 1>>

====
